---- MODULE Spec2Model ----
(***************************************************************************)
(* Model of record.py: the QIDK performance monitor.                       *)
(*                                                                         *)
(* Text returned by the device shell is a sequence of lines, a line is the *)
(* sequence of its whitespace-separated fields (what str.split() yields),  *)
(* a field is a string.  The empty output "" is the empty sequence.        *)
(* Floats rounded to 2 decimals are integers counting hundredths           *)
(* (70.0 is 7000, 86.67 is 8667, 585.94 is 58594).                         *)
(***************************************************************************)
EXTENDS Integers, Sequences, FiniteSets, TLC

\* ------------------------------------------------------------------ bounds
\* largest jiffy count of one field of a generated /proc/stat snapshot
MaxJiffy == 2
\* largest kB value of a generated /proc/meminfo line
MaxKb == 3
\* number of lines of a generated /proc/meminfo table
MaxLines == 2
\* number of thermal zones of a generated listing
MaxZones == 2
\* number of sampling ticks the monitor loop is followed for
MaxTicks == 3

\* ------------------------------------------------------- numbers and text
\* the integers whose decimal numerals occur in the modelled device output
Numbers ==
    (-1 .. MaxJiffy) \cup (-1 .. MaxKb) \cup
    {45, 50, 80, 99, 100, 101, 120, 250, 1010, 5000, 9990, 400000, 1000000, 9000000}

\* int(s): the integer a numeral denotes; defined when IsInt(s)
IsInt(s) == \E n \in Numbers : ToString(n) = s
int(s) == CHOOSE n \in Numbers : ToString(n) = s

\* str.isdigit(): a non-empty string of digits only (no sign)
isdigit(s) == \E n \in Numbers : n >= 0 /\ ToString(n) = s

\* name[:-1]: the field without its last character
DropLastTable ==
    [n \in {"MemTotal:", "MemAvailable:", "MemFree:", "MemTotal", "kB", "junk"} |->
        CASE n = "MemTotal:"     -> "MemTotal"
          [] n = "MemAvailable:" -> "MemAvailable"
          [] n = "MemFree:"      -> "MemFree"
          [] n = "MemTotal"      -> "MemTota"
          [] n = "kB"            -> "k"
          [] n = "junk"          -> "jun"]
DropLast(name) ==
    IF name \in DOMAIN DropLastTable THEN DropLastTable[name] ELSE "other"

Abs(n) == IF n < 0 THEN 0 - n ELSE n

RECURSIVE Gcd(_, _)
Gcd(a, b) == IF b = 0 THEN a ELSE Gcd(b, a % b)

\* n/d rounded to the nearest integer, ties to even (d > 0)
RoundHalfEven(n, d) ==
    LET q == n \div d
        r == n % d
    IN  IF 2 * r < d THEN q
        ELSE IF 2 * r > d THEN q + 1
        ELSE IF q % 2 = 0 THEN q ELSE q + 1

\* round(k * n / d, 2) in hundredths (d > 0).  The fraction n/d is reduced
\* first so that the products stay inside TLC's integers.
Round2(k, n, d) ==
    LET g == Gcd(Abs(n), d)
    IN  RoundHalfEven(100 * k * (n \div g), d \div g)

RECURSIVE sum(_)
sum(s) == IF s = <<>> THEN 0 ELSE Head(s) + sum(Tail(s))

\* Python's None for an optional float, and a present value
None == <<>>
Some(x) == <<x>>

\* Python's None for prev_cpu_data, and a list of integers
NoData == [some |-> FALSE, data |-> <<>>]
Data(d) == [some |-> TRUE, data |-> d]
\* truth value of "if prev_cpu_data:" (None and [] are false)
Truthy(p) == p.some /\ p.data # <<>>

\* --------------------------------------------------------- get_cpu_usage
\* line.startswith("cpu "): the field "cpu" followed by at least one field
IsCpuLine(line) == Len(line) >= 2 /\ line[1] = "cpu"

\* [line for line in raw_output.splitlines() if line.startswith("cpu ")]
CpuLines(raw) == SelectSeq(raw, IsCpuLine)

\* cpu_line.split()[1:8]
Fields1to8(line) == SubSeq(line, 2, IF Len(line) < 8 THEN Len(line) ELSE 8)

\* list(map(int, ...)) raises ValueError on a field that is no numeral
AllInt(fs) == \A i \in 1 .. Len(fs) : IsInt(fs[i])
MapInt(fs) == [i \in 1 .. Len(fs) |-> int(fs[i])]

\* the percent of lines 54-60, for total_diff > 0
cpu_percent_of(prev, cur) ==
    LET total_diff == sum(cur) - sum(prev)
        idle_diff == cur[4] - prev[4]
    IN  Round2(100, total_diff - idle_diff, total_diff)

\* get_cpu_usage with line 62 returning the previous data instead of the
\* current data
get_cpu_usage_keeps_prev(prev_cpu_data, raw_output) ==
    IF raw_output = <<>>
    THEN [percent |-> None, data |-> prev_cpu_data, raised |-> FALSE]
    ELSE IF CpuLines(raw_output) = <<>> \/ ~AllInt(Fields1to8(CpuLines(raw_output)[1]))
    THEN [percent |-> None, data |-> prev_cpu_data, raised |-> TRUE]
    ELSE LET current_data == MapInt(Fields1to8(CpuLines(raw_output)[1]))
         IN  IF Truthy(prev_cpu_data)
             THEN IF Len(prev_cpu_data.data) < 4 \/ Len(current_data) < 4
                  THEN [percent |-> None, data |-> prev_cpu_data, raised |-> TRUE]
                  ELSE IF sum(current_data) - sum(prev_cpu_data.data) > 0
                  THEN [percent |-> Some(cpu_percent_of(prev_cpu_data.data, current_data)),
                        data |-> Data(current_data), raised |-> FALSE]
                  ELSE [percent |-> None, data |-> prev_cpu_data, raised |-> FALSE]
             ELSE [percent |-> None, data |-> Data(current_data), raised |-> FALSE]

\* get_cpu_usage(prev_cpu_data) on the output raw_output of "cat /proc/stat":
\* the pair returned, and whether the except branch of line 64 was taken
get_cpu_usage(prev_cpu_data, raw_output) ==
    IF raw_output = <<>>
    THEN [percent |-> None, data |-> prev_cpu_data, raised |-> FALSE]
    ELSE IF CpuLines(raw_output) = <<>> \/ ~AllInt(Fields1to8(CpuLines(raw_output)[1]))
    THEN [percent |-> None, data |-> prev_cpu_data, raised |-> TRUE]
    ELSE LET current_data == MapInt(Fields1to8(CpuLines(raw_output)[1]))
         IN  IF Truthy(prev_cpu_data)
             THEN IF Len(prev_cpu_data.data) < 4 \/ Len(current_data) < 4
                  THEN [percent |-> None, data |-> prev_cpu_data, raised |-> TRUE]
                  ELSE IF sum(current_data) - sum(prev_cpu_data.data) > 0
                  THEN [percent |-> Some(cpu_percent_of(prev_cpu_data.data, current_data)),
                        data |-> Data(current_data), raised |-> FALSE]
                  ELSE [percent |-> None, data |-> Data(current_data), raised |-> FALSE]
             ELSE [percent |-> None, data |-> Data(current_data), raised |-> FALSE]

\* --------------------------------------------------------- get_ram_usage
\* the loop of lines 77-79 raises ValueError on a line that does not split
\* into exactly three fields or whose second field is no numeral
WellFormed(line) == Len(line) = 3 /\ IsInt(line[2])

\* MemInfo without the conversion from kB to bytes of line 79
RECURSIVE MemInfoKb(_)
MemInfoKb(lines) ==
    IF lines = <<>> THEN <<>>
    ELSE LET rest == MemInfoKb(SubSeq(lines, 1, Len(lines) - 1))
             line == lines[Len(lines)]
             key == DropLast(line[1])
         IN  [k \in DOMAIN rest \cup {key} |->
                 IF k = key THEN int(line[2]) ELSE rest[k]]

\* mem_info after the loop of lines 77-79: a later line overwrites an
\* earlier one of the same name; values are converted from kB to bytes
RECURSIVE MemInfo(_)
MemInfo(lines) ==
    IF lines = <<>> THEN <<>>
    ELSE LET rest == MemInfo(SubSeq(lines, 1, Len(lines) - 1))
             line == lines[Len(lines)]
             key == DropLast(line[1])
         IN  [k \in DOMAIN rest \cup {key} |->
                 IF k = key THEN int(line[2]) * 1024 ELSE rest[k]]

\* mem_info.get(key, 0)
Get(mem_info, key) == IF key \in DOMAIN mem_info THEN mem_info[key] ELSE 0

NoneNone == [percent |-> None, mb |-> None, raised |-> FALSE]

\* get_ram_usage skipping the lines that raise instead of giving up
get_ram_usage_skipping(raw_output) ==
    IF raw_output = <<>> THEN NoneNone
    ELSE LET mem_info == MemInfo(SelectSeq(raw_output, WellFormed))
             total_mem_b == Get(mem_info, "MemTotal")
             free_mem_b == Get(mem_info, "MemAvailable")
             used_mem_b == total_mem_b - free_mem_b
         IN  IF total_mem_b > 0
             THEN [percent |-> Some(Round2(100, used_mem_b, total_mem_b)),
                   mb |-> Some(Round2(1, used_mem_b, 1024 * 1024)),
                   raised |-> FALSE]
             ELSE NoneNone

\* get_ram_usage() on the output raw_output of "cat /proc/meminfo"
get_ram_usage(raw_output) ==
    IF raw_output = <<>> THEN NoneNone
    ELSE IF \E i \in 1 .. Len(raw_output) : ~WellFormed(raw_output[i])
    THEN [NoneNone EXCEPT !.raised = TRUE]
    ELSE LET mem_info == MemInfo(raw_output)
             total_mem_b == Get(mem_info, "MemTotal")
             free_mem_b == Get(mem_info, "MemAvailable")
             used_mem_b == total_mem_b - free_mem_b
         IN  IF total_mem_b > 0
             THEN [percent |-> Some(Round2(100, used_mem_b, total_mem_b)),
                   mb |-> Some(Round2(1, used_mem_b, 1024 * 1024)),
                   raised |-> FALSE]
             ELSE NoneNone

\* -------------------------------------------------------- get_temperature
\* temp_c of lines 119-127 for one zone, in hundredths of a degree
temp_c_of(temp_raw) ==
    IF temp_raw > 1000 /\ temp_raw < 15000 THEN Round2(1, temp_raw, 1000)
    ELSE IF temp_raw > 100 /\ temp_raw < 1500 THEN Round2(1, temp_raw, 100)
    ELSE 100 * temp_raw

\* max_temp_c after the loop of lines 108-131 over the zones' "temp" files
\* (temps[i] is the output of cat for zone i, "" when the cat failed)
RECURSIVE max_temp_c(_)
max_temp_c(temps) ==
    IF temps = <<>> THEN 0
    ELSE LET before == max_temp_c(SubSeq(temps, 1, Len(temps) - 1))
             temp_str == temps[Len(temps)]
         IN  IF temp_str # "" /\ isdigit(temp_str)
             THEN LET temp_c == temp_c_of(int(temp_str))
                  IN  IF temp_c > before /\ temp_c < 10000 THEN temp_c ELSE before
             ELSE before

NA == [na |-> TRUE, v |-> 0]

\* get_temperature(): "N/A" or a number, in hundredths
get_temperature(temps) ==
    IF max_temp_c(temps) = 0 THEN NA
    ELSE [na |-> FALSE, v |-> max_temp_c(temps) * 10]

\* ---------------------------------------------------------- get_htp_usage
get_htp_usage == "N/A"

\* ------------------------------------------------------ the device's output
\* run_adb_shell_command(command): any text the device prints, or "" when
\* adb fails (lines 25-30).  The sets below are the outputs the model feeds.

\* a /proc/stat aggregate line with the 7 counters of snap and steal, guest,
\* guest_nice, followed by a per-core line
StatOutput(snap) ==
    << <<"cpu">> \o [i \in 1 .. 7 |-> ToString(snap[i])] \o <<"0", "0", "0">>,
       <<"cpu0", "1", "1", "1", "1", "1", "1", "1", "0", "0", "0">> >>
StatNoCpuLine == << <<"intr", "1">> >>
StatBadField == << <<"cpu", "1", "junk", "1", "1", "1", "1", "1", "0", "0", "0">> >>
StatShortLine == << <<"cpu", "1", "2">> >>

\* user, nice, system, idle, iowait, irq, softirq
SnapA == <<50, 0, 0, 50, 0, 0, 0>>
SnapB == <<120, 0, 0, 80, 0, 0, 0>>
SnapC == <<250, 0, 0, 100, 0, 0, 0>>

MemExample == << <<"MemTotal:", "1000000", "kB">>, <<"MemAvailable:", "400000", "kB">> >>
MemHugePages == MemExample \o << <<"HugePages_Total:", "0">> >>

TempExample == <<"5000", "45", "9000000">>

\* the outputs fed to the monitor loop
MainStatOutputs ==
    {<<>>, StatNoCpuLine, StatOutput(SnapA), StatOutput(SnapB), StatOutput(SnapC)}
MainMemOutputs == {<<>>, MemExample}
MainTempOutputs == {<<>>, TempExample}

\* --------------------------------------------------------------- the state
VARIABLES
    pc,             \* where main is: "start", "sleeping" (lines 185, 218), "stopped"
    prev_cpu_data,  \* main's local of lines 174-216
    header,         \* whether the header row is in OUTPUT_FILE
    sink,           \* the data rows of OUTPUT_FILE, in file order
    ticks,          \* history: what each iteration of the loop collected
    baseline,       \* history: the snapshot the baseline call of line 177 parsed
    stop,           \* why main returned: "", "fatal", "cancel", "sink", "error"
    cpuCall,        \* one call of get_cpu_usage: arguments and result
    ramCall,        \* one call of get_ram_usage
    tempCall        \* one call of get_temperature

vars == <<pc, prev_cpu_data, header, sink, ticks, baseline, stop, cpuCall, ramCall, tempCall>>
mainVars == <<pc, prev_cpu_data, header, sink, ticks, baseline, stop>>

NoCpuCall == [prev |-> NoData, raw |-> <<>>, called |-> FALSE,
              ret |-> [percent |-> None, data |-> NoData, raised |-> FALSE]]
NoRamCall == [raw |-> <<>>, called |-> FALSE, ret |-> NoneNone]
NoTempCall == [temps |-> <<>>, called |-> FALSE, ret |-> NA]

\* the snapshot the aggregate line of raw_output parses to, if it does
Parsed(raw_output) ==
    IF raw_output # <<>> /\ CpuLines(raw_output) # <<>>
       /\ AllInt(Fields1to8(CpuLines(raw_output)[1]))
    THEN Data(MapInt(Fields1to8(CpuLines(raw_output)[1])))
    ELSE NoData

\* ------------------------------------------------------------------- main
Init ==
    /\ pc = "start"
    /\ prev_cpu_data = NoData
    /\ header = FALSE
    /\ sink = <<>>
    /\ ticks = <<>>
    /\ baseline = NoData
    /\ stop = ""
    /\ cpuCall = NoCpuCall
    /\ ramCall = NoRamCall
    /\ tempCall = NoTempCall

\* lines 163-171: the header cannot be written, main returns
HeaderFails ==
    /\ pc = "start"
    /\ pc' = "stopped"
    /\ stop' = "fatal"
    /\ UNCHANGED <<prev_cpu_data, header, sink, ticks, baseline, cpuCall, ramCall, tempCall>>

\* lines 163-185: header written, baseline call of get_cpu_usage, first sleep
Baseline ==
    /\ pc = "start"
    /\ \E stat \in MainStatOutputs :
          /\ prev_cpu_data' = get_cpu_usage(NoData, stat).data
          /\ baseline' = Parsed(stat)
    /\ header' = TRUE
    /\ pc' = "sleeping"
    /\ UNCHANGED <<sink, ticks, stop, cpuCall, ramCall, tempCall>>

\* the row of lines 199-206; the timestamp is the number of the iteration
data_row(n, cpu, ram, temp) ==
    [timestamp |-> n, cpu_percent |-> cpu.percent, ram_used_mb |-> ram.mb,
     ram_percent |-> ram.percent, max_temp |-> temp, htp_status |-> get_htp_usage]

\* line 213: format(None, ">10") raises TypeError
PrintRaises(row) == row.ram_used_mb = None \/ row.ram_percent = None

\* lines 189-218: one iteration of the loop, up to and including its sleep.
\* sinkOk: whether open/writerow of lines 208-210 succeed.
Tick ==
    /\ pc = "sleeping"
    /\ Len(ticks) < MaxTicks
    /\ \E stat \in MainStatOutputs, mem \in MainMemOutputs,
          temps \in MainTempOutputs, sinkOk \in BOOLEAN :
          LET cpu == get_cpu_usage(prev_cpu_data, stat)
              ram == get_ram_usage(mem)
              temp == get_temperature(temps)
              row == data_row(Len(ticks) + 1, cpu, ram, temp)
              logged == cpu.percent # None
          IN  /\ ticks' = Append(ticks, [row |-> row, parsed |-> Parsed(stat)])
              /\ IF ~logged
                 THEN UNCHANGED <<prev_cpu_data, sink, pc, stop>>
                 ELSE IF ~sinkOk
                 THEN /\ pc' = "stopped"
                      /\ stop' = "sink"
                      /\ UNCHANGED <<prev_cpu_data, sink>>
                 ELSE /\ sink' = Append(sink, row)
                      /\ IF PrintRaises(row)
                         THEN /\ pc' = "stopped"
                              /\ stop' = "error"
                              /\ UNCHANGED prev_cpu_data
                         ELSE /\ prev_cpu_data' = cpu.data
                              /\ UNCHANGED <<pc, stop>>
    /\ UNCHANGED <<header, baseline, cpuCall, ramCall, tempCall>>

\* lines 185, 218-221: KeyboardInterrupt while main sleeps
Cancel ==
    /\ pc = "sleeping"
    /\ pc' = "stopped"
    /\ stop' = "cancel"
    /\ UNCHANGED <<prev_cpu_data, header, sink, ticks, baseline, cpuCall, ramCall, tempCall>>

Next == HeaderFails \/ Baseline \/ Tick \/ Cancel

Spec == Init /\ [][Next]_vars

\* ------------------------------------------- the metric functions, one call
\* snapshots whose user, system, idle and iowait counters range over
\* 0..MaxJiffy, and the three snapshots of the end-to-end example
Snapshots ==
    {<<u, 0, s, i, w, 0, 0>> : u \in 0 .. MaxJiffy, s \in 0 .. MaxJiffy,
                               i \in 0 .. MaxJiffy, w \in 0 .. MaxJiffy}
    \cup {SnapA, SnapB, SnapC}

StatOutputs ==
    {<<>>, StatNoCpuLine, StatBadField, StatShortLine} \cup {StatOutput(snap) : snap \in Snapshots}
PrevDatas == {NoData, Data(<<>>), Data(<<1, 2>>)} \cup {Data(snap) : snap \in Snapshots}

MemNames == {"MemTotal:", "MemAvailable:", "MemFree:", "MemTotal"}
MemValues == {ToString(n) : n \in -1 .. MaxKb} \cup {"junk"}
MemLineSet ==
    {<<n, v, "kB">> : n \in MemNames, v \in MemValues} \cup {<<"HugePages_Total:", "0">>}
RECURSIVE SeqsUpTo(_, _)
SeqsUpTo(S, n) ==
    IF n = 0 THEN {<<>>}
    ELSE LET shorter == SeqsUpTo(S, n - 1)
         IN  shorter \cup {Append(q, x) : q \in shorter, x \in S}
MemOutputs == SeqsUpTo(MemLineSet, MaxLines) \cup {MemExample, MemHugePages}

TempStrs == {"", "junk", "-1", "0", "45", "99", "100", "101", "1010", "5000", "9990", "9000000"}
TempOutputs == SeqsUpTo(TempStrs, MaxZones) \cup {TempExample}

InitMainIdle ==
    /\ pc = "start"
    /\ prev_cpu_data = NoData
    /\ header = FALSE
    /\ sink = <<>>
    /\ ticks = <<>>
    /\ baseline = NoData
    /\ stop = ""

\* get_cpu_usage on every previous value and every output
InitCpu ==
    /\ InitMainIdle
    /\ \E p \in PrevDatas, raw \in StatOutputs :
          cpuCall = [NoCpuCall EXCEPT !.prev = p, !.raw = raw]
    /\ ramCall = NoRamCall
    /\ tempCall = NoTempCall

CallCpu ==
    /\ ~cpuCall.called
    /\ cpuCall' = [cpuCall EXCEPT !.called = TRUE,
                                  !.ret = get_cpu_usage(cpuCall.prev, cpuCall.raw)]
    /\ UNCHANGED <<mainVars, ramCall, tempCall>>

SpecCpu == InitCpu /\ [][CallCpu]_vars

\* get_ram_usage on every table
InitRam ==
    /\ InitMainIdle
    /\ cpuCall = NoCpuCall
    /\ \E raw \in MemOutputs : ramCall = [NoRamCall EXCEPT !.raw = raw]
    /\ tempCall = NoTempCall

CallRam ==
    /\ ~ramCall.called
    /\ ramCall' = [ramCall EXCEPT !.called = TRUE, !.ret = get_ram_usage(ramCall.raw)]
    /\ UNCHANGED <<mainVars, cpuCall, tempCall>>

SpecRam == InitRam /\ [][CallRam]_vars

\* get_temperature on every listing of zone readings
InitTemp ==
    /\ InitMainIdle
    /\ cpuCall = NoCpuCall
    /\ ramCall = NoRamCall
    /\ \E temps \in TempOutputs : tempCall = [NoTempCall EXCEPT !.temps = temps]

CallTemp ==
    /\ ~tempCall.called
    /\ tempCall' = [tempCall EXCEPT !.called = TRUE, !.ret = get_temperature(tempCall.temps)]
    /\ UNCHANGED <<mainVars, cpuCall, ramCall>>

SpecTemp == InitTemp /\ [][CallTemp]_vars

\* ================================================================ claims
IsSnapshot(d) == d.some /\ Len(d.data) = 7

\* C1: in the loop every tick appends exactly one row to the sink, in tick
\* order, whichever metrics are absent: after n ticks the sink holds n rows,
\* row i being tick i's sample (a failing sink aside).
C1_OneRowPerTick ==
    stop # "sink" =>
        /\ Len(sink) = Len(ticks)
        /\ \A i \in 1 .. Len(sink) : sink[i] = ticks[i].row

\* C2: the loop stops only on cancellation or a sink failure, never because
\* one metric was unavailable.
C2_StopsOnlyOnCancelOrSink ==
    pc = "stopped" => stop \in {"fatal", "cancel", "sink"}

\* C3: across consecutive ticks whose scheduler line parses, after a tick
\* that parsed a snapshot the retained previous snapshot is that snapshot,
\* also when the tick's percent was None.
C3_PrevIsLastParsed ==
    [][(/\ pc = "sleeping" /\ pc' = "sleeping"
        /\ Len(ticks') = Len(ticks) + 1
        /\ IsSnapshot(prev_cpu_data)
        /\ IsSnapshot(ticks'[Len(ticks')].parsed))
       => prev_cpu_data' = ticks'[Len(ticks')].parsed]_vars

\* C4: for successive snapshots of non-negative counters with total_diff > 0
\* the percent returned by get_cpu_usage is within [0,100].
C4_PercentInRange ==
    (/\ cpuCall.called
     /\ IsSnapshot(cpuCall.prev)
     /\ IsSnapshot(Parsed(cpuCall.raw))
     /\ \A i \in 1 .. 7 : cpuCall.prev.data[i] >= 0 /\ Parsed(cpuCall.raw).data[i] >= 0
     /\ sum(Parsed(cpuCall.raw).data) - sum(cpuCall.prev.data) > 0)
    => /\ cpuCall.ret.percent # None
       /\ cpuCall.ret.percent[1] >= 0
       /\ cpuCall.ret.percent[1] <= 10000

\* C5: when the aggregate line parses to a snapshot, get_cpu_usage returns
\* percent None exactly when there is no previous snapshot or
\* total_diff <= 0; in every case the second component is the current
\* snapshot and the except branch is not taken.
C5_NoneIffNoPrevOrNoDelta ==
    (/\ cpuCall.called
     /\ IsSnapshot(Parsed(cpuCall.raw))
     /\ (cpuCall.prev = NoData \/ IsSnapshot(cpuCall.prev)))
    => /\ cpuCall.ret.percent = None <=>
             \/ cpuCall.prev = NoData
             \/ sum(Parsed(cpuCall.raw).data) - sum(cpuCall.prev.data) <= 0
       /\ cpuCall.ret.data = Parsed(cpuCall.raw)
       /\ ~cpuCall.ret.raised

\* a call with a previous snapshot and a different current snapshot of the
\* same total: (None, current)
C5_Witness ==
    /\ cpuCall.called
    /\ IsSnapshot(cpuCall.prev)
    /\ IsSnapshot(Parsed(cpuCall.raw))
    /\ Parsed(cpuCall.raw) # cpuCall.prev
    /\ sum(Parsed(cpuCall.raw).data) = sum(cpuCall.prev.data)
    /\ cpuCall.ret.percent = None

\* the zones whose reading is numeric and resolves below 100 degrees
PlausibleZones(temps) ==
    {i \in 1 .. Len(temps) : isdigit(temps[i]) /\ temp_c_of(int(temps[i])) < 10000}

\* C6: get_temperature returns the maximum, unscaled, of the resolved values
\* below 100; the raw readings 5000, 45, 9000000 give 45.0.
C6_MaxUnscaled ==
    (tempCall.called /\ ~tempCall.ret.na) =>
        /\ \E i \in PlausibleZones(tempCall.temps) :
              tempCall.ret.v = temp_c_of(int(tempCall.temps[i]))
        /\ \A i \in PlausibleZones(tempCall.temps) :
              tempCall.ret.v >= temp_c_of(int(tempCall.temps[i]))
        /\ tempCall.temps = TempExample => tempCall.ret.v = 4500

\* C7: get_temperature returns "N/A" if and only if no zone yields a
\* plausible value; a zone reading 0 is plausible.
C7_NAIffNoPlausible ==
    tempCall.called => (tempCall.ret.na <=> PlausibleZones(tempCall.temps) = {})

\* C8: whenever get_ram_usage returns a value for non-negative MemTotal and
\* MemAvailable, the used percent is within [0,100].
C8_PercentInRange ==
    (/\ ramCall.called
     /\ ramCall.ret.percent # None
     /\ Get(MemInfo(ramCall.raw), "MemAvailable") >= 0)
    => /\ ramCall.ret.percent[1] >= 0
       /\ ramCall.ret.percent[1] <= 10000

\* C9 as stated: the table MemTotal 1000000 kB, MemAvailable 400000 kB gives
\* used_percent 60.0 and used_mb 600.0.
C9_Example600 ==
    (ramCall.called /\ ramCall.raw = MemExample) =>
        /\ ramCall.ret.percent = Some(6000)
        /\ ramCall.ret.mb = Some(60000)

\* the kB value of the last line named key, 0 when there is none
RECURSIVE LastKb(_, _)
LastKb(lines, key) ==
    IF lines = <<>> THEN 0
    ELSE IF DropLast(lines[Len(lines)][1]) = key THEN int(lines[Len(lines)][2])
    ELSE LastKb(SubSeq(lines, 1, Len(lines) - 1), key)

\* C9 amended: that table gives used_percent 60.0 and used_mb 585.94; in
\* general used_percent is 100 * (total - available) / total and used_mb is
\* (total - available) * 1024 / 1048576, each to the nearest hundredth.
C9_UsedFormula ==
    (ramCall.called /\ ramCall.ret.percent # None) =>
        LET total == LastKb(ramCall.raw, "MemTotal")
            used == total - LastKb(ramCall.raw, "MemAvailable")
        IN  /\ ramCall.ret.mb # None
            /\ ramCall.raw = MemExample =>
                  ramCall.ret = [percent |-> Some(6000), mb |-> Some(58594), raised |-> FALSE]
            /\ total <= 1000 =>
                  /\ 2 * Abs(ramCall.ret.percent[1] * total - 10000 * used) <= total
                  /\ 2 * Abs(ramCall.ret.mb[1] * 1024 - 100 * used) <= 1024

C9_Witness ==
    /\ ramCall.called
    /\ ramCall.raw = MemExample
    /\ ramCall.ret.mb = Some(58594)

HasLine(lines, key) ==
    \E i \in 1 .. Len(lines) : Len(lines[i]) >= 1 /\ DropLast(lines[i][1]) = key
Malformed(lines) ==
    \E i \in 1 .. Len(lines) : Len(lines[i]) # 3 \/ ~IsInt(lines[i][2])

\* C10 as stated: (None, None) exactly when the text is empty, MemTotal is
\* missing or zero, or some line is not three fields with an integer value.
C10_NoneIffZeroOrMalformed ==
    ramCall.called =>
        /\ (ramCall.ret.percent = None) = (ramCall.ret.mb = None)
        /\ ramCall.ret.percent = None <=>
              \/ ramCall.raw = <<>>
              \/ Malformed(ramCall.raw)
              \/ ~HasLine(ramCall.raw, "MemTotal")
              \/ LastKb(ramCall.raw, "MemTotal") = 0

\* C10 amended: (None, None) exactly when the text is empty, MemTotal is
\* missing, zero or negative, or some line is not three fields with an
\* integer value.
C10_NoneIffNotPositiveOrMalformed ==
    ramCall.called =>
        /\ (ramCall.ret.percent = None) = (ramCall.ret.mb = None)
        /\ ramCall.ret.percent = None <=>
              \/ ramCall.raw = <<>>
              \/ Malformed(ramCall.raw)
              \/ ~HasLine(ramCall.raw, "MemTotal")
              \/ LastKb(ramCall.raw, "MemTotal") <= 0

\* a table whose MemTotal and MemAvailable lines are well formed and whose
\* last line has two fields: (None, None) through the except branch
C10_Witness ==
    /\ ramCall.called
    /\ ramCall.raw = MemHugePages
    /\ ramCall.ret = [NoneNone EXCEPT !.raised = TRUE]

\* the ticks so far all parsed a snapshot, with strictly increasing totals
IncreasingTicks ==
    /\ \A i \in 1 .. Len(ticks) : IsSnapshot(ticks[i].parsed)
    /\ \A i \in 1 .. Len(ticks) - 1 :
          sum(ticks[i].parsed.data) < sum(ticks[i + 1].parsed.data)

\* the baseline call was made and stored no snapshot
BaselineFailed == header /\ ~baseline.some

\* C11: the loop leaves Baselining after the baseline fetch whether or not
\* it succeeded, and a failed baseline is recovered from: when the baseline
\* fetch failed and the later fetches succeed (memory included) with
\* strictly increasing totals, the first tick stores its snapshot and by
\* the second tick a percent is derived and a row is in the sink.
C11_FailedBaselineRecovered ==
    /\ header => pc # "start"
    /\ (/\ BaselineFailed
        /\ pc = "sleeping"
        /\ Len(ticks) >= 2
        /\ IncreasingTicks
        /\ \A i \in 1 .. Len(ticks) : ticks[i].row.ram_used_mb # None)
       => sink # <<>>

\* what the code does instead: after a failed baseline no previous snapshot
\* is ever retained and no row is ever written
C11_NeverRecovers ==
    BaselineFailed => (prev_cpu_data = NoData /\ sink = <<>>)

====
